---- MODULE Spec2Model ----
(***************************************************************************)
(* Undo / action-history subsystem of the transit dataset manager.         *)
(*   ActionHistory   backend/dsa_structures/action_history.py              *)
(*   BusStopManager  backend/dsa_structures/stops.py                       *)
(* The route manager and utils.Stack are collaborators whose code is not   *)
(* part of the two files; they follow the contract of spec.md section 6.   *)
(*                                                                         *)
(* Conventions                                                             *)
(*   - a Python str used as a stop name is a sequence of one-character     *)
(*     strings, so that strip() and lower() are computed, not assumed;     *)
(*   - a Python dict is a TLA+ record; payload["k"] on a dict without the  *)
(*     key k raises KeyError;                                              *)
(*   - the stack is a sequence whose top is its last element;              *)
(*   - positions in a route are 1-based (assign_stop_to_route accepts      *)
(*     positions up to len(route)+1), -1 is the not-found sentinel.        *)
(***************************************************************************)
EXTENDS Integers, Sequences, FiniteSets, TLC

VARIABLES stack, origin, routes, stops, uuidCtr, result

vars == <<stack, origin, routes, stops, uuidCtr, result>>

(***************************************************************************)
(* Bounds of the model.                                                    *)
(***************************************************************************)
MaxStack == 2

MaxRouteLen == 3

MaxStops == 2

MaxUuid == 1

RouteIds == {"R1", "R2"}

StopIds == {"s1", "s2"}

Times == {"t1"}

(***************************************************************************)
(* Strings: str.strip() and str.lower() on sequences of characters.        *)
(***************************************************************************)
IsSpace(c) == c = " "

LowerChar(c) == IF c = "A" THEN "a" ELSE IF c = "B" THEN "b" ELSE c

Lower(s) == [i \in 1..Len(s) |-> LowerChar(s[i])]

RECURSIVE LStrip(_)
LStrip(s) == IF s # <<>> /\ IsSpace(Head(s)) THEN LStrip(Tail(s)) ELSE s

RECURSIVE RStrip(_)
RStrip(s) ==
  IF s # <<>> /\ IsSpace(s[Len(s)]) THEN RStrip(SubSeq(s, 1, Len(s) - 1)) ELSE s

Strip(s) == RStrip(LStrip(s))

(***************************************************************************)
(* Stop records.  add_stop builds {stop_id, stop_name, location, latitude, *)
(* longitude, created_at}; the last four are copied and never read by any  *)
(* operation, so a stop is carried as its id and its name.  A stop_data    *)
(* without a name behaves as one with the empty name (.get default "").    *)
(***************************************************************************)
Stop(id, name) == [stop_id |-> id, stop_name |-> name]

NoId == "none"

NonePosition == 0

NotFound == -1

(***************************************************************************)
(* Route collaborator (contract of spec.md section 6).  Every operation    *)
(* yields the error it raises (NoErr when none) and the routes afterwards. *)
(***************************************************************************)
Err(class, msg, arg) == [class |-> class, msg |-> msg, arg |-> arg]

NoErr == Err("", "", "")

ValueError(msg) == Err("ValueError", msg, "")

KeyError(key) == Err("KeyError", "", key)

RouteError(msg) == Err("RouteStoreError", msg, "")

RouteRes(e, rs) == [err |-> e, routes |-> rs]

RemoveAt(s, p) == SubSeq(s, 1, p - 1) \o SubSeq(s, p + 1, Len(s))

InsertAt(s, p, x) == SubSeq(s, 1, p - 1) \o <<x>> \o SubSeq(s, p, Len(s))

delete_route(rs, id) ==
  IF id \notin DOMAIN rs
  THEN RouteRes(RouteError("Route not found"), rs)
  ELSE RouteRes(NoErr, [r \in (DOMAIN rs) \ {id} |-> rs[r]])

restore_route(rs, data) ==
  RouteRes(NoErr, [r \in (DOMAIN rs) \cup {data.route_id} |->
                  IF r = data.route_id THEN data.stops ELSE rs[r]])

get_stop_position(rs, id, sid) ==
  IF id \notin DOMAIN rs
  THEN NotFound
  ELSE LET hits == {i \in 1..Len(rs[id]) : rs[id][i].stop_id = sid}
       IN  IF hits = {} THEN NotFound
           ELSE CHOOSE i \in hits : \A j \in hits : i <= j

route_remove_stop(rs, id, pos) ==
  IF id \notin DOMAIN rs THEN RouteRes(RouteError("Route not found"), rs)
  ELSE IF pos \notin 1..Len(rs[id]) THEN RouteRes(RouteError("Invalid position"), rs)
  ELSE RouteRes(NoErr, [rs EXCEPT ![id] = RemoveAt(rs[id], pos)])

route_add_stop(rs, id, stop, pos) ==
  IF id \notin DOMAIN rs THEN RouteRes(RouteError("Route not found"), rs)
  ELSE IF pos = NonePosition
       THEN RouteRes(NoErr, [rs EXCEPT ![id] = Append(rs[id], stop)])
  ELSE IF pos \notin 1..(Len(rs[id]) + 1) THEN RouteRes(RouteError("Invalid position"), rs)
  ELSE RouteRes(NoErr, [rs EXCEPT ![id] = InsertAt(rs[id], pos, stop)])

update_stop(rs, id, pos, stop) ==
  IF id \notin DOMAIN rs THEN RouteRes(RouteError("Route not found"), rs)
  ELSE IF pos \notin 1..Len(rs[id]) THEN RouteRes(RouteError("Invalid position"), rs)
  ELSE RouteRes(NoErr, [rs EXCEPT ![id][pos] = stop])

replace_stops(rs, id, seq) ==
  IF id \notin DOMAIN rs THEN RouteRes(RouteError("Route not found"), rs)
  ELSE RouteRes(NoErr, [rs EXCEPT ![id] = seq])

has_stop_name(rs, id, name) ==
  /\ id \in DOMAIN rs
  /\ \E i \in 1..Len(rs[id]) : Lower(Strip(rs[id][i].stop_name)) = Lower(Strip(name))

(***************************************************************************)
(* BusStopManager (stops.py).  Every operation yields the error it raises  *)
(* (NoErr when none), the stop list afterwards and the value it returns.   *)
(***************************************************************************)
StopRes(e, ss, v) == [err |-> e, stops |-> ss, value |-> v]

NoStop == Stop(NoId, <<>>)

_normalize_name(name) == Strip(name)

\* the stored stops whose name equals the given one, trimmed and lower-cased
\* the duplicate test comparing the names as written, case included
_find_duplicate_name_case_sensitive(ss, name) ==
  {i \in 1..Len(ss) : Strip(ss[i].stop_name) = name}

_find_duplicate_name(ss, name) ==
  {i \in 1..Len(ss) : Lower(Strip(ss[i].stop_name)) = Lower(name)}

\* str(uuid.uuid4()): the n-th identifier generated, never one generated before
Uuid(n) == IF n = 1 THEN "u1" ELSE IF n = 2 THEN "u2" ELSE "u3"

\* stop_data.stop_id = NoId stands for a stop_data without a stop_id
add_stop(ss, ctr, stop_data) ==
  LET stop_name == _normalize_name(stop_data.stop_name)
      stop == Stop(IF stop_data.stop_id = NoId THEN Uuid(ctr + 1)
                   ELSE stop_data.stop_id, stop_name)
  IN  IF stop_name = <<>> THEN StopRes(ValueError("stop_name is required"), ss, NoStop)
      ELSE IF _find_duplicate_name(ss, stop_name) # {}
           THEN StopRes(ValueError("Stop already exists"), ss, NoStop)
      ELSE StopRes(NoErr, Append(ss, stop), stop)

\* remove_stop taking out every stop with the id, not the first one only
remove_stop_every(ss, stop_id) ==
  LET hits == {i \in 1..Len(ss) : ss[i].stop_id = stop_id}
  IN  IF hits = {} THEN StopRes(ValueError("Stop not found"), ss, NoStop)
      ELSE LET idx == CHOOSE i \in hits : \A j \in hits : i <= j
           IN  StopRes(NoErr, SelectSeq(ss, LAMBDA x : x.stop_id # stop_id), ss[idx])

remove_stop(ss, stop_id) ==
  LET hits == {i \in 1..Len(ss) : ss[i].stop_id = stop_id}
  IN  IF hits = {} THEN StopRes(ValueError("Stop not found"), ss, NoStop)
      ELSE LET idx == CHOOSE i \in hits : \A j \in hits : i <= j
           IN  StopRes(NoErr, RemoveAt(ss, idx), ss[idx])

restore_stop(ss, stop_data) ==
  LET stop_name == _normalize_name(stop_data.stop_name)
  IN  IF _find_duplicate_name(ss, stop_name) # {}
      THEN StopRes(ValueError("Stop already exists"), ss, NoStop)
      ELSE StopRes(NoErr, Append(ss, stop_data), stop_data)

get_stop_by_id(ss, stop_id) ==
  LET hits == {i \in 1..Len(ss) : ss[i].stop_id = stop_id}
  IN  IF hits = {} THEN NoStop
      ELSE ss[CHOOSE i \in hits : \A j \in hits : i <= j]

(***************************************************************************)
(* utils.Stack as ActionHistory uses it: push, and pop that yields None on *)
(* an empty stack (undo_last tests "if not action").                       *)
(***************************************************************************)
StackPush(s, x) == Append(s, x)

StackPop(s) ==
  IF s = <<>>
  THEN [none |-> TRUE, rest |-> s]
  ELSE [none |-> FALSE, rest |-> SubSeq(s, 1, Len(s) - 1)]

StackTop(s) == s[Len(s)]

(***************************************************************************)
(* ActionHistory (action_history.py).                                      *)
(***************************************************************************)
Action(type, payload, ts) == [type |-> type, payload |-> payload, timestamp |-> ts]

NoAction == Action("", [none |-> ""], "")

Has(payload, key) == key \in DOMAIN payload

\* a call made on a collaborator: which one, which operation, its arguments
Call(on, op, args) == [on |-> on, op |-> op, args |-> args]

\* the outcome of the inverse dispatch: error raised, stores and calls made
Out(e, rs, ss, cs) == [err |-> e, routes |-> rs, stops |-> ss, calls |-> cs]

\* the first key of ks (in evaluation order) that the payload lacks
RECURSIVE MissingKey(_, _)
MissingKey(payload, ks) ==
  IF ks = <<>> THEN ""
  ELSE IF ~Has(payload, Head(ks)) THEN Head(ks)
  ELSE MissingKey(payload, Tail(ks))

\* line 30-31
undo_route_created(payload, rs, ss) ==
  IF ~Has(payload, "route_id") THEN Out(KeyError("route_id"), rs, ss, <<>>)
  ELSE LET r == delete_route(rs, payload.route_id)
       IN  Out(r.err, r.routes, ss,
               <<Call("route", "delete_route", <<payload.route_id>>)>>)

\* the route recreated by its id alone, without the stops of the payload
undo_route_deleted_no_stops(payload, rs, ss) ==
  IF ~Has(payload, "route_data") THEN Out(KeyError("route_data"), rs, ss, <<>>)
  ELSE LET data == [route_id |-> payload.route_data.route_id, stops |-> <<>>]
           r == restore_route(rs, data)
       IN  Out(r.err, r.routes, ss, <<Call("route", "restore_route", <<data>>)>>)

\* line 32-33
undo_route_deleted(payload, rs, ss) ==
  IF ~Has(payload, "route_data") THEN Out(KeyError("route_data"), rs, ss, <<>>)
  ELSE LET r == restore_route(rs, payload.route_data)
       IN  Out(r.err, r.routes, ss,
               <<Call("route", "restore_route", <<payload.route_data>>)>>)

\* stop_added undone as stop_assigned is: a stop not found is passed over
undo_stop_added_lenient(payload, rs, ss) ==
  LET k == MissingKey(payload, <<"route_id", "stop_id">>)
  IN  IF k # "" THEN Out(KeyError(k), rs, ss, <<>>)
      ELSE LET position == get_stop_position(rs, payload.route_id, payload.stop_id)
               lookup == Call("route", "get_stop_position",
                              <<payload.route_id, payload.stop_id>>)
               r == route_remove_stop(rs, payload.route_id, position)
           IN  IF position = NotFound
               THEN Out(NoErr, rs, ss, <<lookup>>)
               ELSE Out(r.err, r.routes, ss,
                        <<lookup, Call("route", "remove_stop",
                                       <<payload.route_id, position>>)>>)

\* line 34-38
undo_stop_added(payload, rs, ss) ==
  LET k == MissingKey(payload, <<"route_id", "stop_id">>)
  IN  IF k # "" THEN Out(KeyError(k), rs, ss, <<>>)
      ELSE LET position == get_stop_position(rs, payload.route_id, payload.stop_id)
               lookup == Call("route", "get_stop_position",
                              <<payload.route_id, payload.stop_id>>)
               r == route_remove_stop(rs, payload.route_id, position)
           IN  IF position = NotFound
               THEN Out(ValueError("Stop not found for undo"), rs, ss, <<lookup>>)
               ELSE Out(r.err, r.routes, ss,
                        <<lookup, Call("route", "remove_stop",
                                       <<payload.route_id, position>>)>>)

\* the stop put back at the end of the route, whatever position was recorded
undo_stop_removed_appending(payload, rs, ss) ==
  LET k == MissingKey(payload, <<"route_id", "stop_data", "position">>)
  IN  IF k # "" THEN Out(KeyError(k), rs, ss, <<>>)
      ELSE LET r == route_add_stop(rs, payload.route_id, payload.stop_data,
                                   NonePosition)
           IN  Out(r.err, r.routes, ss,
                   <<Call("route", "add_stop",
                          <<payload.route_id, payload.stop_data, NonePosition>>)>>)

\* line 39-40
undo_stop_removed(payload, rs, ss) ==
  LET k == MissingKey(payload, <<"route_id", "stop_data", "position">>)
  IN  IF k # "" THEN Out(KeyError(k), rs, ss, <<>>)
      ELSE LET r == route_add_stop(rs, payload.route_id, payload.stop_data,
                                   payload.position)
           IN  Out(r.err, r.routes, ss,
                   <<Call("route", "add_stop",
                          <<payload.route_id, payload.stop_data, payload.position>>)>>)

\* the previous stop put in front of the position instead of over it
undo_stop_updated_inserting(payload, rs, ss) ==
  LET k == MissingKey(payload, <<"route_id", "position", "previous_stop">>)
  IN  IF k # "" THEN Out(KeyError(k), rs, ss, <<>>)
      ELSE LET r == route_add_stop(rs, payload.route_id, payload.previous_stop,
                                   payload.position)
           IN  Out(r.err, r.routes, ss,
                   <<Call("route", "add_stop",
                          <<payload.route_id, payload.previous_stop,
                            payload.position>>)>>)

\* line 41-42
undo_stop_updated(payload, rs, ss) ==
  LET k == MissingKey(payload, <<"route_id", "position", "previous_stop">>)
  IN  IF k # "" THEN Out(KeyError(k), rs, ss, <<>>)
      ELSE LET r == update_stop(rs, payload.route_id, payload.position,
                                payload.previous_stop)
           IN  Out(r.err, r.routes, ss,
                   <<Call("route", "update_stop",
                          <<payload.route_id, payload.position,
                            payload.previous_stop>>)>>)

\* line 43-44
undo_stops_reordered(payload, rs, ss) ==
  LET k == MissingKey(payload, <<"route_id", "previous_stops">>)
  IN  IF k # "" THEN Out(KeyError(k), rs, ss, <<>>)
      ELSE LET r == replace_stops(rs, payload.route_id, payload.previous_stops)
           IN  Out(r.err, r.routes, ss,
                   <<Call("route", "replace_stops",
                          <<payload.route_id, payload.previous_stops>>)>>)

\* the stop manager used without the test of line 46: None has no remove_stop
undo_stop_created_unchecked(payload, has_sm, rs, ss) ==
  IF ~Has(payload, "stop_id") THEN Out(KeyError("stop_id"), rs, ss, <<>>)
  ELSE IF ~has_sm
  THEN Out(Err("AttributeError", "NoneType has no attribute remove_stop", ""),
           rs, ss, <<>>)
  ELSE LET r == remove_stop(ss, payload.stop_id)
       IN  Out(r.err, rs, r.stops,
               <<Call("stop", "remove_stop", <<payload.stop_id>>)>>)

\* line 45-48; has_sm: a stop manager was passed (stop_manager is not None)
undo_stop_created(payload, has_sm, rs, ss) ==
  IF ~has_sm THEN Out(ValueError("Stop manager not available for undo"), rs, ss, <<>>)
  ELSE IF ~Has(payload, "stop_id") THEN Out(KeyError("stop_id"), rs, ss, <<>>)
  ELSE LET r == remove_stop(ss, payload.stop_id)
       IN  Out(r.err, rs, r.stops,
               <<Call("stop", "remove_stop", <<payload.stop_id>>)>>)

\* line 49-52
undo_stop_deleted(payload, has_sm, rs, ss) ==
  IF ~has_sm THEN Out(ValueError("Stop manager not available for undo"), rs, ss, <<>>)
  ELSE IF ~Has(payload, "stop_data") THEN Out(KeyError("stop_data"), rs, ss, <<>>)
  ELSE LET r == restore_stop(ss, payload.stop_data)
       IN  Out(r.err, rs, r.stops,
               <<Call("stop", "restore_stop", <<payload.stop_data>>)>>)

\* stop_assigned undone as stop_added is: a stop not found is an error
undo_stop_assigned_strict(payload, rs, ss) == undo_stop_added(payload, rs, ss)

\* line 53-56
undo_stop_assigned(payload, rs, ss) ==
  LET k == MissingKey(payload, <<"route_id", "stop_id">>)
  IN  IF k # "" THEN Out(KeyError(k), rs, ss, <<>>)
      ELSE LET position == get_stop_position(rs, payload.route_id, payload.stop_id)
               lookup == Call("route", "get_stop_position",
                              <<payload.route_id, payload.stop_id>>)
               r == route_remove_stop(rs, payload.route_id, position)
           IN  IF position # NotFound
               THEN Out(r.err, r.routes, ss,
                        <<lookup, Call("route", "remove_stop",
                                       <<payload.route_id, position>>)>>)
               ELSE Out(NoErr, rs, ss, <<lookup>>)

\* line 57-58
\* an unknown kind undone as a no-operation instead of an error
undo_unsupported_silent(action_type, rs, ss) == Out(NoErr, rs, ss, <<>>)

undo_unsupported(action_type, rs, ss) ==
  Out(Err("ValueError", "Unsupported action type", action_type), rs, ss, <<>>)

\* lines 27-58: the if/elif chain on action["type"]
dispatch(action, has_sm, rs, ss) ==
  LET action_type == action.type
      payload == action.payload
  IN  CASE action_type = "route_created"   -> undo_route_created(payload, rs, ss)
        [] action_type = "route_deleted"   -> undo_route_deleted(payload, rs, ss)
        [] action_type = "stop_added"      -> undo_stop_added(payload, rs, ss)
        [] action_type = "stop_removed"    -> undo_stop_removed(payload, rs, ss)
        [] action_type = "stop_updated"    -> undo_stop_updated(payload, rs, ss)
        [] action_type = "stops_reordered" -> undo_stops_reordered(payload, rs, ss)
        [] action_type = "stop_created"    -> undo_stop_created(payload, has_sm, rs, ss)
        [] action_type = "stop_deleted"    -> undo_stop_deleted(payload, has_sm, rs, ss)
        [] action_type = "stop_assigned"   -> undo_stop_assigned(payload, rs, ss)
        [] OTHER                           -> undo_unsupported(action_type, rs, ss)

(***************************************************************************)
(* What a call left behind: the operation, whether a stop manager was      *)
(* passed, how it ended ("returned" or "raised"), the value returned       *)
(* (success, message, action), the error raised, the calls it made on the  *)
(* collaborators, the action it popped, the length of the history when it  *)
(* started, and (filled in by UndoLast) the origin of the popped action.   *)
(* For a call of the stop manager: its arguments (arg) and the stop it     *)
(* returned (value).                                                       *)
(***************************************************************************)
EmptyRoutes == [r \in {} |-> <<>>]

ArgOf(stop_data, route_id, position) ==
  [stop |-> stop_data, route_id |-> route_id, position |-> position]

NoArg == ArgOf(NoStop, "", NonePosition)

Snapshot(rs, ss) == [linked |-> TRUE, routes |-> rs, stops |-> ss]

Unlinked == [linked |-> FALSE, routes |-> EmptyRoutes, stops |-> <<>>]

Result(op, has_sm, outcome, success, message, action, err, calls, popped, depth) ==
  [op |-> op, has_sm |-> has_sm, outcome |-> outcome, success |-> success,
   message |-> message, action |-> action, error |-> err, calls |-> calls,
   popped |-> popped, depth |-> depth, origin |-> Unlinked,
   arg |-> NoArg, value |-> NoStop]

NoResult ==
  Result("init", FALSE, "returned", FALSE, "", NoAction, NoErr, <<>>, NoAction, 0)

\* what record leaves: it returns nothing; "action" keeps the call's arguments
Recorded(depth, action_type, payload, now) ==
  Result("record", FALSE, "returned", FALSE, "", Action(action_type, payload, now),
         NoErr, <<>>, NoAction, depth)

\* record as a queue would keep it: the new action goes under the others
record_at_bottom(st, action_type, payload, now) ==
  <<Action(action_type, payload, now)>> \o st

\* record keeping only the latest action (assignment instead of push)
record_keeping_one(st, action_type, payload, now) ==
  <<Action(action_type, payload, now)>>

\* record(action_type, payload), lines 13-20
record(st, action_type, payload, now) ==
  StackPush(st, Action(action_type, payload, now))

\* undo_last popping a plain list: an empty history raises IndexError
undo_last_raises_on_empty(st, has_sm, rs, ss) ==
  LET popped == StackPop(st)
      action == StackTop(st)
      d == dispatch(action, has_sm, rs, ss)
  IN  IF popped.none
      THEN [stack |-> popped.rest, routes |-> rs, stops |-> ss,
            result |-> Result("undo_last", has_sm, "raised", FALSE, "", NoAction,
                              Err("IndexError", "pop from empty list", ""), <<>>,
                              NoAction, Len(st))]
      ELSE [stack |-> popped.rest, routes |-> d.routes, stops |-> d.stops,
            result |-> IF d.err = NoErr
                       THEN Result("undo_last", has_sm, "returned", TRUE, "",
                                   action, NoErr, d.calls, action, Len(st))
                       ELSE Result("undo_last", has_sm, "raised", FALSE, "",
                                   NoAction, d.err, d.calls, action, Len(st))]

\* undo_last reading the top without removing it (peek instead of pop)
undo_last_peek(st, has_sm, rs, ss) ==
  LET popped == StackPop(st)
      action == StackTop(st)
      d == dispatch(action, has_sm, rs, ss)
  IN  IF popped.none
      THEN [stack |-> st, routes |-> rs, stops |-> ss,
            result |-> Result("undo_last", has_sm, "returned", FALSE,
                              "No actions to undo", NoAction, NoErr, <<>>,
                              NoAction, Len(st))]
      ELSE [stack |-> st, routes |-> d.routes, stops |-> d.stops,
            result |-> IF d.err = NoErr
                       THEN Result("undo_last", has_sm, "returned", TRUE, "",
                                   action, NoErr, d.calls, action, Len(st))
                       ELSE Result("undo_last", has_sm, "raised", FALSE, "",
                                   NoAction, d.err, d.calls, action, Len(st))]

\* undo_last putting the action back when its inverse fails
undo_last_restoring(st, has_sm, rs, ss) ==
  LET popped == StackPop(st)
      action == StackTop(st)
      d == dispatch(action, has_sm, rs, ss)
  IN  IF popped.none
      THEN [stack |-> popped.rest, routes |-> rs, stops |-> ss,
            result |-> Result("undo_last", has_sm, "returned", FALSE,
                              "No actions to undo", NoAction, NoErr, <<>>,
                              NoAction, Len(st))]
      ELSE IF d.err = NoErr
      THEN [stack |-> popped.rest, routes |-> d.routes, stops |-> d.stops,
            result |-> Result("undo_last", has_sm, "returned", TRUE, "",
                              action, NoErr, d.calls, action, Len(st))]
      ELSE [stack |-> st, routes |-> d.routes, stops |-> d.stops,
            result |-> Result("undo_last", has_sm, "raised", FALSE, "",
                              NoAction, d.err, d.calls, action, Len(st))]

\* undo_last catching the failure of the inverse and reporting it as a value
undo_last_catching(st, has_sm, rs, ss) ==
  LET popped == StackPop(st)
      action == StackTop(st)
      d == dispatch(action, has_sm, rs, ss)
  IN  IF popped.none
      THEN [stack |-> popped.rest, routes |-> rs, stops |-> ss,
            result |-> Result("undo_last", has_sm, "returned", FALSE,
                              "No actions to undo", NoAction, NoErr, <<>>,
                              NoAction, Len(st))]
      ELSE [stack |-> popped.rest, routes |-> d.routes, stops |-> d.stops,
            result |-> IF d.err = NoErr
                       THEN Result("undo_last", has_sm, "returned", TRUE, "",
                                   action, NoErr, d.calls, action, Len(st))
                       ELSE Result("undo_last", has_sm, "returned", FALSE,
                                   d.err.msg, NoAction, NoErr, d.calls, action,
                                   Len(st))]

\* undo_last(route_manager, stop_manager), lines 22-60: the history, the
\* stores and the result (or error) it leaves
undo_last(st, has_sm, rs, ss) ==
  LET popped == StackPop(st)
      action == StackTop(st)
      d == dispatch(action, has_sm, rs, ss)
  IN  IF popped.none
      THEN [stack |-> popped.rest, routes |-> rs, stops |-> ss,
            result |-> Result("undo_last", has_sm, "returned", FALSE,
                              "No actions to undo", NoAction, NoErr, <<>>,
                              NoAction, Len(st))]
      ELSE [stack |-> popped.rest, routes |-> d.routes, stops |-> d.stops,
            result |-> IF d.err = NoErr
                       THEN Result("undo_last", has_sm, "returned", TRUE, "",
                                   action, NoErr, d.calls, action, Len(st))
                       ELSE Result("undo_last", has_sm, "raised", FALSE, "",
                                   NoAction, d.err, d.calls, action, Len(st))]

\* assign_stop_to_route without the test of the stop's name in the route
assign_stop_to_route_any_name(ss, rs, route_id, stop_id, position) ==
  LET stop == get_stop_by_id(ss, stop_id)
  IN  IF route_id \notin DOMAIN rs \/ Len(rs[route_id]) = 0
      THEN RouteRes(ValueError("Route not found"), rs)
      ELSE IF stop = NoStop
      THEN RouteRes(ValueError("Stop not found"), rs)
      ELSE IF position # NonePosition /\ position > Len(rs[route_id]) + 1
      THEN RouteRes(ValueError("Position out of bounds for route assignment"), rs)
      ELSE route_add_stop(rs, route_id, stop, position)

\* assign_stop_to_route(route_manager, route_id, stop_id, position), lines
\* 99-116.  "if not route" is true of a missing route and of an empty one
\* (len(route) is defined, so an empty route is falsy).
assign_stop_to_route(ss, rs, route_id, stop_id, position) ==
  LET stop == get_stop_by_id(ss, stop_id)
  IN  IF route_id \notin DOMAIN rs \/ Len(rs[route_id]) = 0
      THEN RouteRes(ValueError("Route not found"), rs)
      ELSE IF stop = NoStop
      THEN RouteRes(ValueError("Stop not found"), rs)
      ELSE IF has_stop_name(rs, route_id, Strip(stop.stop_name))
      THEN RouteRes(ValueError("Route already contains stop"), rs)
      ELSE IF position # NonePosition /\ position > Len(rs[route_id]) + 1
      THEN RouteRes(ValueError("Position out of bounds for route assignment"), rs)
      ELSE route_add_stop(rs, route_id, stop, position)

(***************************************************************************)
(* Inputs.                                                                 *)
(***************************************************************************)
StopA == Stop("s1", <<"a">>)

StopB == Stop("s2", <<"b">>)

StopPool == {StopA, StopB}

\* actions recorded with payloads that describe no mutation that happened:
\* every recognised kind, a kind that is not recognised, and a payload that
\* lacks a key its kind reads
FreeActions ==
  {<<"route_created", [route_id |-> "R1"]>>,
   <<"route_deleted", [route_data |-> [route_id |-> "R1", stops |-> <<StopA>>]]>>,
   <<"route_deleted", [route_data |-> [route_id |-> "R2", stops |-> <<StopB>>]]>>,
   <<"stop_removed", [route_id |-> "R1", stop_data |-> StopB, position |-> 1]>>,
   <<"stop_updated", [route_id |-> "R1", position |-> 2, previous_stop |-> StopB]>>,
   <<"stops_reordered", [route_id |-> "R1", previous_stops |-> <<StopB, StopA>>]>>,
   <<"stop_assigned", [route_id |-> "R1", stop_id |-> "s1"]>>,
   <<"route_renamed", [route_id |-> "R1"]>>,
   <<"stop_added", [route_id |-> "R1"]>>}
  \cup {<<"stop_added", [route_id |-> "R1", stop_id |-> s]>> : s \in StopIds}
  \cup {<<"stop_created", [stop_id |-> s]>> : s \in StopIds}
  \cup {<<"stop_deleted", [stop_data |-> d]>> : d \in StopPool}

(***************************************************************************)
(* origin[i] is the snapshot of the two stores taken just before the       *)
(* mutation that stack[i] records, when stack[i] was recorded by a call    *)
(* site right after its mutation and every action recorded above it was    *)
(* recorded the same way; Unlinked otherwise.  An undo that does not bring *)
(* the stores back to the snapshot of the action it pops unlinks the       *)
(* actions under it: the stores are no longer what they were when those    *)
(* were recorded.                                                          *)
(***************************************************************************)
Forget(o) == [i \in 1..Len(o) |-> Unlinked]

Range(s) == {s[i] : i \in DOMAIN s}

\* the stores are those of the snapshot (the stop list up to its order)
SameStores(rs, ss, snap) ==
  /\ rs = snap.routes
  /\ Len(ss) = Len(snap.stops)
  /\ Range(ss) = Range(snap.stops)

WithinBounds(rs, ss) ==
  /\ Len(ss) <= MaxStops
  /\ \A r \in DOMAIN rs : Len(rs[r]) <= MaxRouteLen

TypeOK ==
  /\ Len(stack) <= MaxStack
  /\ Len(origin) = Len(stack)
  /\ DOMAIN routes \subseteq RouteIds
  /\ WithinBounds(routes, stops)
  /\ uuidCtr \in 0..MaxUuid

Init ==
  /\ stack = <<>>
  /\ origin = <<>>
  /\ routes = EmptyRoutes
  /\ stops = <<>>
  /\ uuidCtr = 0
  /\ result = NoResult

(***************************************************************************)
(* Operations of the action history.                                       *)
(***************************************************************************)
Record(action_type, payload, now) ==
  /\ Len(stack) < MaxStack
  /\ stack' = record(stack, action_type, payload, now)
  /\ origin' = Append(origin, Unlinked)
  /\ result' = Recorded(Len(stack), action_type, payload, now)
  /\ UNCHANGED <<routes, stops, uuidCtr>>

UndoLast(has_sm) ==
  LET u == undo_last(stack, has_sm, routes, stops)
      top == origin[Len(origin)]
  IN  /\ WithinBounds(u.routes, u.stops)
      /\ stack' = u.stack
      /\ routes' = u.routes
      /\ stops' = u.stops
      /\ result' = [u.result EXCEPT !.origin = IF stack = <<>> THEN Unlinked ELSE top]
      /\ origin' = IF stack = <<>> THEN origin
                   ELSE IF top.linked /\ SameStores(u.routes, u.stops, top)
                        THEN SubSeq(origin, 1, Len(origin) - 1)
                        ELSE Forget(SubSeq(origin, 1, Len(origin) - 1))
      /\ UNCHANGED uuidCtr

(***************************************************************************)
(* Mutating call sites (spec.md section 2): the change is committed in a   *)
(* store, then the action is recorded with what its inverse needs.  A call *)
(* site whose store operation raises records nothing.                      *)
(***************************************************************************)
Commit(rs, ss, action_type, payload, now) ==
  /\ Len(stack) < MaxStack
  /\ WithinBounds(rs, ss)
  /\ routes' = rs
  /\ stops' = ss
  /\ stack' = record(stack, action_type, payload, now)
  /\ origin' = Append(origin, Snapshot(routes, stops))
  /\ result' = Recorded(Len(stack), action_type, payload, now)

SiteCreateRoute(r, now) ==
  /\ r \notin DOMAIN routes
  /\ Commit(restore_route(routes, [route_id |-> r, stops |-> <<>>]).routes, stops,
            "route_created", [route_id |-> r], now)
  /\ UNCHANGED uuidCtr

SiteDeleteRoute(r, now) ==
  /\ r \in DOMAIN routes
  /\ Commit(delete_route(routes, r).routes, stops, "route_deleted",
            [route_data |-> [route_id |-> r, stops |-> routes[r]]], now)
  /\ UNCHANGED uuidCtr

SiteAddStop(r, stop, pos, now) ==
  LET a == route_add_stop(routes, r, stop, pos)
  IN  /\ a.err = NoErr
      /\ Commit(a.routes, stops, "stop_added",
                [route_id |-> r, stop_id |-> stop.stop_id], now)
      /\ UNCHANGED uuidCtr

SiteCreateStop(stop_data, now) ==
  LET a == add_stop(stops, uuidCtr, stop_data)
  IN  /\ a.err = NoErr
      /\ stop_data.stop_id = NoId => uuidCtr < MaxUuid
      /\ Commit(routes, a.stops, "stop_created", [stop_id |-> a.value.stop_id], now)
      /\ uuidCtr' = IF stop_data.stop_id = NoId THEN uuidCtr + 1 ELSE uuidCtr

SiteDeleteStop(stop_id, now) ==
  LET a == remove_stop(stops, stop_id)
  IN  /\ a.err = NoErr
      /\ Commit(routes, a.stops, "stop_deleted", [stop_data |-> a.value], now)
      /\ UNCHANGED uuidCtr

SiteAssignStop(r, stop_id, pos, now) ==
  LET a == assign_stop_to_route(stops, routes, r, stop_id, pos)
  IN  /\ a.err = NoErr
      /\ Commit(a.routes, stops, "stop_assigned",
                [route_id |-> r, stop_id |-> stop_id], now)
      /\ UNCHANGED uuidCtr

Positions == 0..(MaxRouteLen + 1)

\* the history with actions of any kind and payload, undone in any order
Next ==
  \/ \E a \in FreeActions, now \in Times : Record(a[1], a[2], now)
  \/ \E has_sm \in BOOLEAN : UndoLast(has_sm)

Spec == Init /\ [][Next]_vars

(***************************************************************************)
(* The history as the application drives it.  The stores are persistent    *)
(* (BusStopManager.__init__ loads the stops saved by an earlier run) and   *)
(* the history is created empty at start, so a run starts with an empty    *)
(* history over stores an earlier run left.                                *)
(***************************************************************************)
RouteMap(r1, r2) == [r \in {"R1", "R2"} |-> IF r = "R1" THEN r1 ELSE r2]

LoadedRoutes ==
  {EmptyRoutes,
   [r \in {"R1"} |-> <<StopA, StopB>>],
   RouteMap(<<StopA, StopB>>, <<StopB>>)}

LoadedStops == {<<>>, <<StopA>>, <<StopB, StopA>>}

InitSites ==
  /\ stack = <<>>
  /\ origin = <<>>
  /\ routes \in LoadedRoutes
  /\ stops \in LoadedStops
  /\ uuidCtr = 0
  /\ result = NoResult

NextSites ==
  \/ \E has_sm \in BOOLEAN : UndoLast(has_sm)
  \/ \E r \in RouteIds, now \in Times : SiteCreateRoute(r, now)
  \/ \E r \in RouteIds, now \in Times : SiteDeleteRoute(r, now)
  \/ \E r \in RouteIds, s \in StopPool, p \in Positions, now \in Times :
       SiteAddStop(r, s, p, now)
  \/ \E d \in StopPool, now \in Times : SiteCreateStop(d, now)
  \/ \E s \in StopIds, now \in Times : SiteDeleteStop(s, now)
  \/ \E r \in RouteIds, s \in StopIds, p \in Positions, now \in Times :
       SiteAssignStop(r, s, p, now)

SpecSites == InitSites /\ [][NextSites]_vars

(***************************************************************************)
(* The call sites of the stop store alone.  The caller of add_stop may     *)
(* give a stop_id (one that is stored already, too) or leave it to         *)
(* add_stop.                                                               *)
(***************************************************************************)
CreatePool == StopPool \cup {Stop("s1", <<"b">>), Stop(NoId, <<"b">>)}

InitStopSites ==
  /\ stack = <<>>
  /\ origin = <<>>
  /\ routes = EmptyRoutes
  /\ stops \in LoadedStops
  /\ uuidCtr = 0
  /\ result = NoResult

NextStopSites ==
  \/ \E has_sm \in BOOLEAN : UndoLast(has_sm)
  \/ \E d \in CreatePool, now \in Times : SiteCreateStop(d, now)
  \/ \E s \in StopIds \cup {Uuid(1)}, now \in Times : SiteDeleteStop(s, now)

SpecStopSites == InitStopSites /\ [][NextStopSites]_vars

(***************************************************************************)
(* The stop manager called directly, with stop data of any name (case and  *)
(* surrounding blanks varied, empty, blank) and with or without an id, on  *)
(* a store that starts empty; a failing call is a step too.                *)
(***************************************************************************)
StopNames == {<<"a">>, <<"A", " ">>, <<" ", "b">>, <<>>, <<" ">>}

AddPool == {Stop(i, n) : i \in StopIds \cup {NoId}, n \in StopNames}

RestorePool == {Stop(i, n) : i \in StopIds, n \in {<<"a">>, <<"A", " ">>, <<"b">>, <<>>}}

AssignRoutes == RouteIds \cup {"R9"}

AssignStops == StopIds \cup {"s9"}

StopCall(op, arg, err, value) ==
  [NoResult EXCEPT !.op = op, !.has_sm = TRUE,
                   !.outcome = IF err = NoErr THEN "returned" ELSE "raised",
                   !.success = (err = NoErr), !.error = err,
                   !.arg = arg, !.value = value]

AddStop(stop_data) ==
  LET a == add_stop(stops, uuidCtr, stop_data)
      fresh == a.err = NoErr /\ stop_data.stop_id = NoId
  IN  /\ fresh => uuidCtr < MaxUuid
      /\ Len(a.stops) <= MaxStops
      /\ stops' = a.stops
      /\ uuidCtr' = IF fresh THEN uuidCtr + 1 ELSE uuidCtr
      /\ result' = StopCall("add_stop", ArgOf(stop_data, "", NonePosition),
                            a.err, a.value)
      /\ UNCHANGED <<stack, origin, routes>>

RemoveStop(stop_id) ==
  LET a == remove_stop(stops, stop_id)
  IN  /\ stops' = a.stops
      /\ result' = StopCall("remove_stop",
                            ArgOf(Stop(stop_id, <<>>), "", NonePosition),
                            a.err, a.value)
      /\ UNCHANGED <<stack, origin, routes, uuidCtr>>

RestoreStop(stop_data) ==
  LET a == restore_stop(stops, stop_data)
  IN  /\ Len(a.stops) <= MaxStops
      /\ stops' = a.stops
      /\ result' = StopCall("restore_stop", ArgOf(stop_data, "", NonePosition),
                            a.err, a.value)
      /\ UNCHANGED <<stack, origin, routes, uuidCtr>>

AssignStop(route_id, stop_id, position) ==
  LET a == assign_stop_to_route(stops, routes, route_id, stop_id, position)
  IN  /\ WithinBounds(a.routes, stops)
      /\ routes' = a.routes
      /\ result' = StopCall("assign_stop_to_route",
                            ArgOf(Stop(stop_id, <<>>), route_id, position),
                            a.err, NoStop)
      /\ UNCHANGED <<stack, origin, stops, uuidCtr>>

InitStops ==
  /\ stack = <<>>
  /\ origin = <<>>
  /\ routes = EmptyRoutes
  /\ stops = <<>>
  /\ uuidCtr = 0
  /\ result = NoResult

NextStops ==
  \/ \E d \in AddPool : AddStop(d)
  \/ \E s \in StopIds \cup {Uuid(1)} : RemoveStop(s)
  \/ \E d \in RestorePool : RestoreStop(d)

SpecStops == InitStops /\ [][NextStops]_vars

(***************************************************************************)
(* Stops assigned to routes: stored stops (some with the name of a stop of *)
(* the route, written differently) are assigned to a route with a stop, an *)
(* empty route and a route that does not exist, at any position.           *)
(***************************************************************************)
AssignLoadedStops ==
  {<<>>, <<StopA>>, <<StopB, StopA>>,
   <<Stop("s2", <<"A", " ">>), Stop("s1", <<"b">>)>>}

InitAssign ==
  /\ stack = <<>>
  /\ origin = <<>>
  /\ routes = RouteMap(<<StopA>>, <<>>)
  /\ stops \in AssignLoadedStops
  /\ uuidCtr = 0
  /\ result = NoResult

NextAssign ==
  \/ \E r \in AssignRoutes, s \in AssignStops, p \in Positions : AssignStop(r, s, p)
  \/ \E s \in StopIds : RemoveStop(s)

SpecAssign == InitAssign /\ [][NextAssign]_vars

(***************************************************************************)
(* Properties of the action history.                                       *)
(***************************************************************************)
Undone == result.op = "undo_last"

Front(s) == SubSeq(s, 1, Len(s) - 1)

\* C1 as stated: with N actions recorded, each of the first N calls of
\* undo_last (the history is not empty when the call starts) returns a
\* success result and the call on the empty history returns the failure one.
C1_EveryUndoSucceeds ==
  Undone => /\ result.outcome = "returned"
            /\ result.success = (result.depth > 0)

\* C1 amended: each call of undo_last on a history of N > 0 actions leaves
\* N - 1 of them and either returns a success result or raises an error;
\* the call on the empty history returns the failure result {success: false}.
C1_UndoCountsDown ==
  Undone =>
    /\ result.depth > 0 =>
         /\ Len(stack) = result.depth - 1
         /\ \/ result.outcome = "returned" /\ result.success
            \/ result.outcome = "raised" /\ result.error # NoErr
    /\ result.depth = 0 =>
         /\ stack = <<>>
         /\ result.outcome = "returned" /\ ~result.success

C1_Witness ==
  /\ Undone /\ result.depth = MaxStack /\ Len(stack) = MaxStack - 1
  /\ result.outcome = "raised"

\* C2: the history is a last-in-first-out stack: record puts exactly the
\* recorded action on top and leaves the rest, a successful undo_last returns
\* the action that was on top and removes it, and nothing but record ever
\* adds an action (an undone action does not come back).
C2_Step ==
  /\ result'.op = "record" => stack' = Append(stack, result'.action)
  /\ (result'.op = "undo_last" /\ result'.outcome = "returned" /\ result'.success) =>
       /\ stack # <<>>
       /\ result'.action = stack[Len(stack)]
       /\ stack' = Front(stack)
  /\ result'.op = "undo_last" => stack' \in {stack, Front(stack)}

C2_LastInFirstOut == [][C2_Step]_vars

C2_Witness ==
  /\ Undone /\ result.outcome = "returned" /\ result.success
  /\ result.depth = 2 /\ Len(stack) = 1
  /\ result.action.type # stack[1].type

\* C3: undo_last on an empty history returns exactly {success: false,
\* message: "No actions to undo"}, raises nothing, calls neither
\* collaborator and leaves the history empty.
C3_EmptyHistory ==
  (Undone /\ result.depth = 0) =>
    /\ stack = <<>>
    /\ result.outcome = "returned"
    /\ result.success = FALSE
    /\ result.message = "No actions to undo"
    /\ result.error = NoErr
    /\ result.calls = <<>>
    /\ result.action = NoAction

C3_Witness ==
  /\ Undone /\ result.depth = 0 /\ result.outcome = "returned"
  /\ DOMAIN routes # {} /\ stops # <<>>

\* C4: when undo_last runs on a non-empty history and the inverse fails, the
\* failure reaches the caller as an error and the popped action is not put
\* back: the history is the one before the call without its top entry.
C4_Step ==
  (result'.op = "undo_last" /\ stack # <<>> /\ result'.error # NoErr) =>
    /\ result'.outcome = "raised"
    /\ result'.popped = stack[Len(stack)]
    /\ stack' = Front(stack)

C4_FailedUndoLosesAction == [][C4_Step]_vars

C4_Witness ==
  /\ Undone /\ result.outcome = "raised" /\ result.error.class = "RouteStoreError"
  /\ result.depth = 2 /\ Len(stack) = 1

\* C5: a route_deleted action recorded with the whole route as route_data
\* when the route is deleted, then undone: the route is back with the same
\* id and the same stops in the same order, and every other route is as it
\* was before the deletion.
C5_RouteRoundTrip ==
  (Undone /\ result.origin.linked /\ result.popped.type = "route_deleted") =>
    LET data == result.popped.payload.route_data
    IN  /\ result.outcome = "returned" /\ result.success
        /\ data.route_id \in DOMAIN routes
        /\ routes[data.route_id] = result.origin.routes[data.route_id]
        /\ routes = result.origin.routes

C5_Witness ==
  /\ Undone /\ result.origin.linked /\ result.popped.type = "route_deleted"
  /\ result.success
  /\ Len(routes[result.popped.payload.route_data.route_id]) >= 2
  /\ Cardinality(DOMAIN routes) = 2

\* C6 as stated: undoing a stop_added action recorded when the stop was added
\* removes the entry that was added and nothing else, so that the routes are
\* what they were before the stop was added.
C6_RemovesTheAddedStop ==
  (Undone /\ result.origin.linked /\ result.popped.type = "stop_added") =>
    /\ result.outcome = "returned" /\ result.success
    /\ routes = result.origin.routes

\* the same, for a stop added to a route that did not hold a stop of that id
C6_RemovesTheOnlySuchStop ==
  (/\ Undone /\ result.origin.linked /\ result.popped.type = "stop_added"
   /\ get_stop_position(result.origin.routes, result.popped.payload.route_id,
                        result.popped.payload.stop_id) = NotFound) =>
    /\ result.outcome = "returned" /\ result.success
    /\ routes = result.origin.routes

\* C7: undoing a stop_assigned action whose stop is not in the route returns
\* success, raises nothing, makes no mutating call on the route collaborator
\* and leaves the routes as they are; a stop that is in the route is removed
\* at the position found.
C7_Step ==
  (result'.op = "undo_last" /\ stack # <<>>) =>
    LET top == stack[Len(stack)]
        p == top.payload
    IN  (top.type = "stop_assigned" /\ Has(p, "route_id") /\ Has(p, "stop_id")) =>
          LET pos == get_stop_position(routes, p.route_id, p.stop_id)
              calls == result'.calls
          IN  /\ result'.outcome = "returned" /\ result'.success
              /\ stops' = stops
              /\ IF pos = NotFound
                 THEN /\ routes' = routes
                      /\ \A i \in DOMAIN calls : calls[i].op = "get_stop_position"
                 ELSE /\ routes' = [routes EXCEPT ![p.route_id] = RemoveAt(@, pos)]
                      /\ calls[Len(calls)] =
                           Call("route", "remove_stop", <<p.route_id, pos>>)

C7_AssignedUndoIsIdempotent == [][C7_Step]_vars

C7_Witness ==
  /\ Undone /\ result.popped.type = "stop_assigned"
  /\ result.outcome = "returned" /\ result.success
  /\ Len(result.calls) = 1
  /\ result.popped.payload.route_id \in DOMAIN routes
  /\ routes[result.popped.payload.route_id] # <<>>

\* C8: undoing a stop_added action when get_stop_position yields -1 raises
\* the not-found error, does not call remove_stop, leaves every route as it
\* is, and the action stays popped.
C8_Step ==
  (result'.op = "undo_last" /\ stack # <<>>) =>
    LET top == stack[Len(stack)]
        p == top.payload
    IN  (/\ top.type = "stop_added" /\ Has(p, "route_id") /\ Has(p, "stop_id")
         /\ get_stop_position(routes, p.route_id, p.stop_id) = NotFound) =>
          /\ result'.outcome = "raised"
          /\ result'.error = ValueError("Stop not found for undo")
          /\ \A i \in DOMAIN result'.calls : result'.calls[i].op # "remove_stop"
          /\ routes' = routes
          /\ stops' = stops
          /\ stack' = Front(stack)

C8_AddedUndoNotFound == [][C8_Step]_vars

C8_Witness ==
  /\ Undone /\ result.popped.type = "stop_added"
  /\ result.error = ValueError("Stop not found for undo")
  /\ result.popped.payload.route_id \in DOMAIN routes
  /\ routes[result.popped.payload.route_id] # <<>>
  /\ Len(stack) = result.depth - 1

\* C9: undo_last called without a stop manager on a stop_created or
\* stop_deleted action raises the not-available error, calls nothing on the
\* route collaborator, and both stores are unchanged.
C9_Step ==
  (/\ result'.op = "undo_last" /\ stack # <<>> /\ ~result'.has_sm
   /\ stack[Len(stack)].type \in {"stop_created", "stop_deleted"}) =>
      /\ result'.outcome = "raised"
      /\ result'.error = ValueError("Stop manager not available for undo")
      /\ result'.calls = <<>>
      /\ routes' = routes
      /\ stops' = stops

C9_NoStopManager == [][C9_Step]_vars

C9_Witness ==
  /\ Undone /\ ~result.has_sm /\ result.popped.type = "stop_deleted"
  /\ result.outcome = "raised"
  /\ stops # <<>> /\ DOMAIN routes # {}

\* C10 as stated: undo_last called without a stop manager on a stop_created
\* action does not pop: the history is unchanged and the stop_created action
\* is still on top.
C10_UnavailableDoesNotPop ==
  (Undone /\ ~result.has_sm /\ result.popped.type = "stop_created") =>
    /\ Len(stack) = result.depth
    /\ stack[Len(stack)] = result.popped

\* C11: undoing a stop_updated action {route_id, position, previous_stop} on
\* a route that has that position leaves previous_stop there, whatever was
\* there before, and leaves the length of the route, its other positions,
\* the other routes and the stops as they were.
C11_Step ==
  (result'.op = "undo_last" /\ stack # <<>>) =>
    LET top == stack[Len(stack)]
        p == top.payload
    IN  (/\ top.type = "stop_updated"
         /\ MissingKey(p, <<"route_id", "position", "previous_stop">>) = ""
         /\ p.route_id \in DOMAIN routes
         /\ p.position \in 1..Len(routes[p.route_id])) =>
          /\ result'.outcome = "returned" /\ result'.success
          /\ DOMAIN routes' = DOMAIN routes
          /\ Len(routes'[p.route_id]) = Len(routes[p.route_id])
          /\ routes'[p.route_id][p.position] = p.previous_stop
          /\ \A i \in 1..Len(routes[p.route_id]) :
               i # p.position => routes'[p.route_id][i] = routes[p.route_id][i]
          /\ \A r \in DOMAIN routes : r # p.route_id => routes'[r] = routes[r]
          /\ stops' = stops

C11_UpdatedUndoOverwrites == [][C11_Step]_vars

C11_Witness ==
  /\ Undone /\ result.popped.type = "stop_updated" /\ result.success
  /\ Len(routes[result.popped.payload.route_id]) >= 2
  /\ routes[result.popped.payload.route_id][result.popped.payload.position]
       = result.popped.payload.previous_stop

RouteKinds ==
  {"route_created", "route_deleted", "stop_added", "stop_removed",
   "stop_updated", "stops_reordered", "stop_assigned"}

StopKinds == {"stop_created", "stop_deleted"}

RecognisedKinds == RouteKinds \cup StopKinds

\* C12: record takes any kind and payload and pushes it without failing,
\* a kind outside the nine included; undoing an action of such a kind
\* raises the Unsupported error naming the kind and calls no operation of
\* either collaborator.
C12_UnsupportedKind ==
  /\ result.op = "record" =>
       /\ result.outcome = "returned" /\ result.error = NoErr
       /\ Len(stack) = result.depth + 1
       /\ stack[Len(stack)] = result.action
  /\ (Undone /\ result.popped # NoAction
        /\ result.popped.type \notin RecognisedKinds) =>
       /\ result.outcome = "raised"
       /\ result.error = Err("ValueError", "Unsupported action type",
                             result.popped.type)
       /\ result.calls = <<>>

C12_Witness ==
  /\ Undone /\ result.popped.type = "route_renamed"
  /\ result.outcome = "raised" /\ result.error.arg = "route_renamed"

\* C13: record(kind, payload) only pushes one entry {kind, payload,
\* timestamp} on top of the history: the entries already there keep their
\* content and order, and neither the routes nor the stops change.
C13_Step ==
  (result'.op = "record" /\ ~(UNCHANGED vars)) =>
    /\ stack' = Append(stack, result'.action)
    /\ DOMAIN result'.action = {"type", "payload", "timestamp"}
    /\ result'.action.timestamp \in Times
    /\ routes' = routes
    /\ stops' = stops

C13_RecordOnlyPushes == [][C13_Step]_vars

C13_Witness ==
  /\ result.op = "record" /\ Len(stack) = 2
  /\ stack[1] # stack[2] /\ stack[2] = result.action

\* the error of the collaborator operation that undoes an action whose
\* payload is complete, NoErr when the operation completes
InverseError(action, rs, ss) ==
  LET p == action.payload
  IN  CASE action.type = "route_created" -> delete_route(rs, p.route_id).err
        [] action.type = "route_deleted" -> restore_route(rs, p.route_data).err
        [] action.type = "stop_removed" ->
             route_add_stop(rs, p.route_id, p.stop_data, p.position).err
        [] action.type = "stop_updated" ->
             update_stop(rs, p.route_id, p.position, p.previous_stop).err
        [] action.type = "stops_reordered" ->
             replace_stops(rs, p.route_id, p.previous_stops).err
        [] action.type = "stop_created" -> remove_stop(ss, p.stop_id).err
        [] action.type = "stop_deleted" -> restore_stop(ss, p.stop_data).err

PayloadKeys(action_type) ==
  CASE action_type = "route_created" -> <<"route_id">>
    [] action_type = "route_deleted" -> <<"route_data">>
    [] action_type = "stop_removed" -> <<"route_id", "stop_data", "position">>
    [] action_type = "stop_updated" -> <<"route_id", "position", "previous_stop">>
    [] action_type = "stops_reordered" -> <<"route_id", "previous_stops">>
    [] action_type = "stop_created" -> <<"stop_id">>
    [] action_type = "stop_deleted" -> <<"stop_data">>
    [] OTHER -> <<"route_id", "stop_id">>

\* C14: undo_last neither catches nor converts the failure of the inverse
\* operation: it ends with the collaborator's own error and returns nothing;
\* the only failure it returns as a value is the empty history, and it
\* returns success only when the collaborator's operation completed.
C14_Step ==
  (result'.op = "undo_last" /\ ~(UNCHANGED vars)) =>
    /\ (result'.outcome = "returned" /\ ~result'.success) => stack = <<>>
    /\ result'.success => (result'.outcome = "returned" /\ result'.error = NoErr)
    /\ stack # <<>> =>
         LET top == stack[Len(stack)]
         IN  (/\ top.type \in RecognisedKinds \ {"stop_added", "stop_assigned"}
              /\ MissingKey(top.payload, PayloadKeys(top.type)) = ""
              /\ (top.type \in StopKinds => result'.has_sm)) =>
               LET e == InverseError(top, routes, stops)
               IN  /\ e # NoErr =>
                         /\ result'.outcome = "raised"
                         /\ result'.error = e
                         /\ result'.action = NoAction
                         /\ ~result'.success
                   /\ e = NoErr =>
                         /\ result'.outcome = "returned"
                         /\ result'.success

C14_FailuresPropagate == [][C14_Step]_vars

C14_Witness ==
  /\ Undone /\ result.popped.type = "stop_deleted" /\ result.has_sm
  /\ result.outcome = "raised"
  /\ result.error = ValueError("Stop already exists")
  /\ result.action = NoAction

\* the operation listed for each kind
InverseOp(action_type) ==
  CASE action_type = "route_created" -> "delete_route"
    [] action_type = "route_deleted" -> "restore_route"
    [] action_type = "stop_added" -> "remove_stop"
    [] action_type = "stop_removed" -> "add_stop"
    [] action_type = "stop_updated" -> "update_stop"
    [] action_type = "stops_reordered" -> "replace_stops"
    [] action_type = "stop_created" -> "remove_stop"
    [] action_type = "stop_deleted" -> "restore_stop"
    [] action_type = "stop_assigned" -> "remove_stop"

\* the arguments of that operation come from the payload; the position
\* given to remove_stop for stop_added and stop_assigned is the one found
\* by the lookup
ArgsFromPayload(action_type, p, args) ==
  CASE action_type = "route_created" -> args = <<p.route_id>>
    [] action_type = "route_deleted" -> args = <<p.route_data>>
    [] action_type \in {"stop_added", "stop_assigned"} ->
         Len(args) = 2 /\ args[1] = p.route_id /\ args[2] > 0
    [] action_type = "stop_removed" ->
         args = <<p.route_id, p.stop_data, p.position>>
    [] action_type = "stop_updated" ->
         args = <<p.route_id, p.position, p.previous_stop>>
    [] action_type = "stops_reordered" -> args = <<p.route_id, p.previous_stops>>
    [] action_type = "stop_created" -> args = <<p.stop_id>>
    [] action_type = "stop_deleted" -> args = <<p.stop_data>>

\* C17: an undo of a recognised kind calls only the inverse operation
\* listed for the kind, with arguments from the payload, and at most one
\* operation that changes a collaborator; a route kind never calls the
\* stop collaborator and a stop kind never calls the route collaborator.
C17_OnlyTheListedInverse ==
  (Undone /\ result.popped # NoAction
     /\ result.popped.type \in RecognisedKinds) =>
    LET k == result.popped.type
        p == result.popped.payload
        cs == result.calls
        mutating == {i \in 1..Len(cs) : cs[i].op # "get_stop_position"}
    IN  /\ Cardinality(mutating) <= 1
        /\ mutating \subseteq {Len(cs)}
        /\ \A i \in 1..Len(cs) :
             cs[i].on = (IF k \in StopKinds THEN "stop" ELSE "route")
        /\ \A i \in mutating :
             cs[i].op = InverseOp(k) /\ ArgsFromPayload(k, p, cs[i].args)
        /\ \A i \in (1..Len(cs)) \ mutating :
             /\ k \in {"stop_added", "stop_assigned"}
             /\ i = 1
             /\ cs[i].args = <<p.route_id, p.stop_id>>

C17_Witness ==
  /\ Undone /\ result.popped.type = "stop_removed" /\ result.success
  /\ Len(result.calls) = 1
  /\ result.calls[1].args[3] = result.popped.payload.position

(***************************************************************************)
(* Properties of the stop manager.                                         *)
(***************************************************************************)
NameKey(name) == Lower(Strip(name))

NameStored(ss, name) == \E i \in 1..Len(ss) : NameKey(ss[i].stop_name) = NameKey(name)

IdStored(ss, stop_id) == \E i \in 1..Len(ss) : ss[i].stop_id = stop_id

\* C15: from an empty store, whatever add_stop, remove_stop and
\* restore_stop calls are made, failing ones included, no two stored stops
\* have names that are equal once trimmed and case is ignored.
C15_UniqueNames ==
  \A i, j \in 1..Len(stops) :
    i # j => NameKey(stops[i].stop_name) # NameKey(stops[j].stop_name)

C15_Witness ==
  /\ result.op \in {"add_stop", "restore_stop"}
  /\ result.outcome = "raised"
  /\ result.error = ValueError("Stop already exists")
  /\ result.arg.stop.stop_name = <<"A", " ">>
  /\ Len(stops) = 2
  /\ \E i \in 1..Len(stops) : stops[i].stop_name = <<"a">>

\* C16 as stated: from an empty store, whatever add_stop (with or without
\* a stop_id given by the caller), remove_stop and restore_stop calls are
\* made, no two stored stops have the same stop_id.
C16_UniqueIds ==
  \A i, j \in 1..Len(stops) : i # j => stops[i].stop_id # stops[j].stop_id

\* C19: add_stop with an empty, blank or already stored name, remove_stop
\* with an id that is not stored and restore_stop with an already stored
\* name raise and leave the stop list as it was; a remove_stop that
\* succeeds takes out one stop, the first with the id, and returns it.
C19_Step ==
  (result'.op \in {"add_stop", "remove_stop", "restore_stop"}
     /\ ~(UNCHANGED vars)) =>
    LET op == result'.op
        a == result'.arg.stop
    IN  /\ (op = "add_stop"
              /\ (Strip(a.stop_name) = <<>> \/ NameStored(stops, a.stop_name))) =>
             (result'.outcome = "raised" /\ stops' = stops)
        /\ (op = "remove_stop" /\ ~IdStored(stops, a.stop_id)) =>
             (result'.outcome = "raised" /\ stops' = stops)
        /\ (op = "restore_stop" /\ NameStored(stops, a.stop_name)) =>
             (result'.outcome = "raised" /\ stops' = stops)
        /\ result'.outcome = "raised" => stops' = stops
        /\ (op = "remove_stop" /\ IdStored(stops, a.stop_id)) =>
             /\ result'.outcome = "returned"
             /\ Len(stops') = Len(stops) - 1
             /\ \E k \in 1..Len(stops) :
                  /\ stops[k].stop_id = a.stop_id
                  /\ \A j \in 1..(k - 1) : stops[j].stop_id # a.stop_id
                  /\ stops' = RemoveAt(stops, k)
                  /\ result'.value = stops[k]

C20_Step ==
  (result'.op = "assign_stop_to_route" /\ ~(UNCHANGED vars)) =>
    LET r == result'.arg.route_id
        position == result'.arg.position
        stop == get_stop_by_id(stops, result'.arg.stop.stop_id)
        allowed ==
          /\ r \in DOMAIN routes
          /\ IdStored(stops, result'.arg.stop.stop_id)
          /\ ~has_stop_name(routes, r, stop.stop_name)
          /\ (position = NonePosition \/ position <= Len(routes[r]) + 1)
    IN  /\ stops' = stops
        /\ routes' # routes => allowed
        /\ ~allowed =>
             /\ result'.outcome = "raised"
             /\ result'.error.class = "ValueError"
             /\ routes' = routes
        /\ result'.outcome = "returned" =>
             /\ allowed
             /\ \E k \in 1..(Len(routes[r]) + 1) :
                  routes' = [routes EXCEPT ![r] = InsertAt(routes[r], k, stop)]

C20_AssignOnlyWhenAllowed == [][C20_Step]_vars

C20_Witness ==
  /\ result.op = "assign_stop_to_route" /\ result.outcome = "returned"
  /\ Len(routes["R1"]) = 2
  /\ routes["R1"][1].stop_id = result.arg.stop.stop_id
  /\ IdStored(stops, result.arg.stop.stop_id)

\* C18 as stated: stops added and removed with success, each recorded as
\* stop_created {stop_id} or stop_deleted {stop_data}, then undone one by
\* one with the stop manager passed: every undo succeeds and the store
\* holds again the stop records it held before the recorded call.
C18_StopRoundTrip ==
  (Undone /\ result.has_sm /\ result.origin.linked
     /\ result.popped.type \in StopKinds) =>
    /\ result.success
    /\ Len(stops) = Len(result.origin.stops)
    /\ Range(stops) = Range(result.origin.stops)

\* the round trip of C18 where no stop is added with an id that is stored
\* already
C18_RoundTripOfFreshIds ==
  (/\ Undone /\ result.has_sm /\ result.origin.linked
   /\ result.popped.type \in StopKinds
   /\ (result.popped.type = "stop_created" =>
         ~IdStored(result.origin.stops, result.popped.payload.stop_id))) =>
    /\ result.success
    /\ Len(stops) = Len(result.origin.stops)
    /\ Range(stops) = Range(result.origin.stops)

====
